---- MODULE Spec2Model ----
(***************************************************************************)
(* Model of the reservation monitor: run_check and the functions it calls, *)
(* in its two variants src/reservation_checker.py ("rc") and               *)
(* src/monitor.py ("mon").  One behaviour is a sequence of sequential      *)
(* invocations of run_check that share one state file.  The browser, the   *)
(* mail server and the file system are the environment: each of their      *)
(* answers is drawn with \E in the step that consumes it.                  *)
(* Three further specifications follow one call of                         *)
(* gather_candidate_buttons (FilterSpec), one call of check_single_date    *)
(* (ProbeSpec) and two overlapping invocations of run_check (RaceSpec).    *)
(***************************************************************************)
EXTENDS Integers, Sequences, FiniteSets, TLC

\* ---------------------------------------------------------------- bounds
MaxCand == 2
MaxRuns == 2
MaxTime == 6
MaxButtons == 2
MaxSlots == 2
\* alertRuns counts up to MaxAlerts invocations, which stands for more too
MaxAlerts == 2

\* ------------------------------------------------------------- constants
\* timedelta(hours=6) of should_send_report, in hours
REPORT_INTERVAL == 6
\* None of last_report_time / last_run_time
Null == -1
\* a last_report_time that datetime.fromisoformat rejects
Malformed == -2

Variants == {"rc", "mon"}
\* the time between two invocations: just short of the report interval, or
\* the interval
TickSteps == {REPORT_INTERVAL - 1, REPORT_INTERVAL}
StateKeys == {"total_runs", "successful_finds", "last_report_time",
              "reservation_found", "last_run_time"}

VARIABLES
    variant,          \* which source file is running
    credentials,      \* EMAIL and EMAIL_PASSWORD are both set in the environment
    file,             \* content of run_state.json
    state,            \* run_check's local `state`
    pc,               \* position of the invocation in run_check
    browser,          \* run_check's local `browser`: "none" (None) or "open"
    now,              \* datetime.now(), in hours
    candidates,       \* check_dates' local `candidates` (labels)
    idx,              \* position of check_dates' loop in candidates
    available_dates,  \* check_dates' local `available_dates`
    exitStatus,       \* exit status of the last finished invocation
    loaded,           \* history: what load_state returned in this invocation
    probeLog,         \* history: one record per check_single_date call of check_dates,
                      \* kept until run_check's first step after check_dates
    navs,             \* history: page.goto calls of this invocation
    gathers,          \* history: gather_candidate_buttons calls made by check_dates
    critical,         \* history: pc at which the top-level except caught, or "none"
    alertAttempted,   \* history: send_availability_alert was called
    alertDelivered,   \* history: one of its two send_email calls returned True
    foundSave,        \* history: outcome of the save_state that follows a find
    saveResult,       \* history: outcome of the save_state call of the last step
    reportResult,     \* history: outcome of send_status_report in the last step
    due,              \* history: what should_send_report did in the last step
    alertRuns,        \* history: the invocations since the file was last
                      \* deleted that called send_availability_alert
    lastSent,         \* history: when the last status report went out, of all
                      \* invocations so far; Null when none did
    prep,             \* history: what the guest selection and the advance click
                      \* of check_dates' loop body came to for the candidate
                      \* that is probed next
    gcb,              \* one call of gather_candidate_buttons: its position,
                      \* datetime.now().date(), and its locals buttons,
                      \* candidates and the loop index
    csd,              \* one call of check_single_date: its position, its locals
                      \* time_buttons, dinner_slot_found, next_clicked and the
                      \* loop index, the clicks and the classification so far
                      \* (events), and what it returned
    race              \* two overlapping invocations of run_check: the state
                      \* file they share and, for each, its position, its
                      \* local `state` and the outcome of its last save_state

runVars == <<variant, credentials, file, state, pc, browser, now, candidates, idx,
          available_dates, exitStatus, loaded, probeLog, navs,
          gathers, critical, alertAttempted, alertDelivered, foundSave,
          saveResult, reportResult, due, prep, lastSent, alertRuns>>

\* the variables of the calls that are modelled on their own
callVars == <<gcb, csd, race>>

vars == <<runVars, callVars>>

\* ------------------------------------------------------- the run state
\* load_state's literal default dictionary
DefaultState ==
    [kind |-> "dict", keys |-> StateKeys, total_runs |-> 0,
     successful_finds |-> 0, last_report_time |-> Null,
     reservation_found |-> FALSE, last_run_time |-> Null]

\* a state file that is absent, not parseable, or JSON that is not an object
NoDict(k) == [DefaultState EXCEPT !.kind = k, !.keys = {}]

Has(s, key) == key \in s.keys

\* load_state(): the parsed file when it exists and parses, else the default
load_state(f) ==
    IF f.kind \in {"missing", "corrupt"} THEN DefaultState ELSE f

SaveOutcomes == {"ok", "open_fails", "write_fails"}

\* save_state(state): open(STATE_FILE,'w') then json.dump, every exception
\* swallowed.  A failing open leaves the file alone; a failure after the open
\* leaves the file truncated by mode 'w'.
save_state(f, s, outcome) ==
    CASE outcome = "ok" -> s
      [] outcome = "open_fails" -> f
      [] OTHER -> NoDict("corrupt")

\* the same check reading a key the file never holds
get_reservation_found_wrong_key(s) == Has(s, "found") /\ s.reservation_found

\* state.get("reservation_found", False)
get_reservation_found(s) == Has(s, "reservation_found") /\ s.reservation_found

\* what a send_email call can come to: without EMAIL or EMAIL_PASSWORD it
\* returns False before it builds the message, with them it sends or catches
\* the exception
SendOutcomesFor(c) ==
    IF c THEN {"sent", "smtp_error"} ELSE {"no_credentials"}

\* send_email(...): True only when the message went out
send_email(outcome) == outcome = "sent"

\* the same check with > in place of >=
should_send_report_strict(s, t) ==
    IF s.last_report_time = Null THEN TRUE
    ELSE IF s.last_report_time = Malformed THEN TRUE
    ELSE t - s.last_report_time > REPORT_INTERVAL

\* should_send_report(state), for a state that has the key last_report_time:
\* True for None, the comparison for a parsed time stamp, True when parsing
\* raised
should_send_report(s, t) ==
    IF s.last_report_time = Null THEN TRUE
    ELSE IF s.last_report_time = Malformed THEN TRUE
    ELSE t - s.last_report_time >= REPORT_INTERVAL

\* keys that send_status_report reads with state[...]
ReportKeys == {"total_runs", "successful_finds", "reservation_found"}

\* ---------------------------------------------------- classification
\* Of the page a probe reaches, `phrase` is what is_fully_booked(page)
\* returns and `form` what reached_booking_step(page) returns; both swallow
\* their own exceptions and then return False.

\* the steps of check_single_date whose failure ends it with `return False`
ProbeSteps(v) ==
    {"gather", "locate", "click", "next", "settle"}
        \cup (IF v = "rc" THEN {"timeslot"} ELSE {})

\* the tail of check_single_date: what it returns for the page it reached
classify_rc(form, phrase) ==
    IF form THEN TRUE
    ELSE IF phrase THEN FALSE
    ELSE TRUE

classify_mon(form, phrase) ==
    IF phrase THEN FALSE ELSE TRUE

\* target_btn.click() returned: the steps before it and the click itself
\* did not fail
date_clicked(failStep) == failStep \notin {"gather", "locate", "click"}

\* check_single_date(page, label): failStep is the step that failed, or "none"
check_single_date(v, failStep, form, phrase) ==
    IF failStep # "none" THEN FALSE
    ELSE IF v = "rc" THEN classify_rc(form, phrase)
    ELSE classify_mon(form, phrase)

\* ------------------------------------------------- texts and dates
\* A text is a sequence of one-character strings, so that lower(), strip(),
\* `in` and the two regular expressions are computed on its characters.
Digits == <<"0", "1", "2", "3", "4", "5", "6", "7", "8", "9">>
UpperCase == <<"A", "B", "C", "D", "E", "F", "G", "H", "I", "J", "K", "L",
               "M", "N", "O", "P", "Q", "R", "S", "T", "U", "V", "W", "X",
               "Y", "Z", "É", "Û", "Î">>
LowerCase == <<"a", "b", "c", "d", "e", "f", "g", "h", "i", "j", "k", "l",
               "m", "n", "o", "p", "q", "r", "s", "t", "u", "v", "w", "x",
               "y", "z", "é", "û", "î">>

IsDigit(c) == \E i \in DOMAIN Digits : Digits[i] = c
DigitValue(c) == CHOOSE n \in 0..9 : Digits[n + 1] = c
IsUpper(c) == \E i \in DOMAIN UpperCase : UpperCase[i] = c
IsLower(c) == \E i \in DOMAIN LowerCase : LowerCase[i] = c
\* \w of the re module
IsWordChar(c) == IsDigit(c) \/ IsUpper(c) \/ IsLower(c) \/ c = "_"

Min(S) == CHOOSE x \in S : \A y \in S : x <= y
Max(S) == CHOOSE x \in S : \A y \in S : x >= y

\* str.lower()
lower(t) ==
    [i \in DOMAIN t |->
        IF IsUpper(t[i])
        THEN LowerCase[CHOOSE k \in DOMAIN UpperCase : UpperCase[k] = t[i]]
        ELSE t[i]]

\* str.strip()
strip(t) ==
    LET inked == {i \in DOMAIN t : t[i] # " "}
    IN  IF inked = {} THEN <<>> ELSE SubSeq(t, Min(inked), Max(inked))

\* `k in t` for two strings
Contains(t, k) ==
    \E i \in 0..(Len(t) - Len(k)) : SubSeq(t, i + 1, i + Len(k)) = k

\* \b between t[i] and t[i + 1]
Boundary(t, i) ==
    (i >= 1 /\ IsWordChar(t[i])) # (i + 1 <= Len(t) /\ IsWordChar(t[i + 1]))

\* months_lookup, in the order of the dict literal
months_lookup == <<
    [month |-> 1, name |-> <<"j", "a", "n", "u", "a", "r", "y">>],
    [month |-> 1, name |-> <<"j", "a", "n", "v", "i", "e", "r">>],
    [month |-> 1, name |-> <<"j", "a", "n">>],
    [month |-> 2, name |-> <<"f", "e", "b", "r", "u", "a", "r", "y">>],
    [month |-> 2, name |-> <<"f", "é", "v", "r", "i", "e", "r">>],
    [month |-> 2, name |-> <<"f", "e", "v", "r", "i", "e", "r">>],
    [month |-> 2, name |-> <<"f", "e", "b">>],
    [month |-> 3, name |-> <<"m", "a", "r", "c", "h">>],
    [month |-> 3, name |-> <<"m", "a", "r", "s">>],
    [month |-> 4, name |-> <<"a", "p", "r", "i", "l">>],
    [month |-> 4, name |-> <<"a", "v", "r", "i", "l">>],
    [month |-> 4, name |-> <<"a", "p", "r">>],
    [month |-> 5, name |-> <<"m", "a", "y">>],
    [month |-> 5, name |-> <<"m", "a", "i">>],
    [month |-> 6, name |-> <<"j", "u", "n", "e">>],
    [month |-> 6, name |-> <<"j", "u", "i", "n">>],
    [month |-> 7, name |-> <<"j", "u", "l", "y">>],
    [month |-> 7, name |-> <<"j", "u", "i", "l", "l", "e", "t">>],
    [month |-> 7, name |-> <<"j", "u", "l">>],
    [month |-> 8, name |-> <<"a", "u", "g", "u", "s", "t">>],
    [month |-> 8, name |-> <<"a", "o", "û", "t">>],
    [month |-> 8, name |-> <<"a", "o", "u", "t">>],
    [month |-> 8, name |-> <<"a", "u", "g">>],
    [month |-> 9, name |-> <<"s", "e", "p", "t", "e", "m", "b", "e",
                                "r">>],
    [month |-> 9, name |-> <<"s", "e", "p", "t", "e", "m", "b", "r",
                                "e">>],
    [month |-> 9, name |-> <<"s", "e", "p">>],
    [month |-> 9, name |-> <<"s", "e", "p", "t">>],
    [month |-> 10, name |-> <<"o", "c", "t", "o", "b", "e", "r">>],
    [month |-> 10, name |-> <<"o", "c", "t", "o", "b", "r", "e">>],
    [month |-> 10, name |-> <<"o", "c", "t">>],
    [month |-> 11, name |-> <<"n", "o", "v", "e", "m", "b", "e", "r">>],
    [month |-> 11, name |-> <<"n", "o", "v", "e", "m", "b", "r", "e">>],
    [month |-> 11, name |-> <<"n", "o", "v">>],
    [month |-> 12, name |-> <<"d", "e", "c", "e", "m", "b", "e", "r">>],
    [month |-> 12, name |-> <<"d", "é", "c", "e", "m", "b", "r", "e">>],
    [month |-> 12, name |-> <<"d", "e", "c", "e", "m", "b", "r", "e">>],
    [month |-> 12, name |-> <<"d", "e", "c">>]>>

\* ------------------------------------------------------ the calendar
\* datetime.date: validity, ordinal and comparison of the proleptic
\* Gregorian calendar
IsLeap(y) == (y % 4 = 0 /\ y % 100 # 0) \/ y % 400 = 0

DaysInMonth(y, m) ==
    IF m \in {1, 3, 5, 7, 8, 10, 12} THEN 31
    ELSE IF m \in {4, 6, 9, 11} THEN 30
    ELSE IF IsLeap(y) THEN 29 ELSE 28

RECURSIVE DaysBeforeMonth(_, _)
DaysBeforeMonth(y, m) ==
    IF m = 1 THEN 0 ELSE DaysBeforeMonth(y, m - 1) + DaysInMonth(y, m - 1)

\* datetime(year, month, day) does not raise ValueError
ValidDate(y, m, d) ==
    /\ y \in 1..9999
    /\ m \in 1..12
    /\ d \in 1..DaysInMonth(y, m)

\* date.toordinal()
toordinal(y, m, d) ==
    (y - 1) * 365 + (y - 1) \div 4 - (y - 1) \div 100 + (y - 1) \div 400
        + DaysBeforeMonth(y, m) + d

\* -------------------------------------------------- is_within_date_range
\* MONTHS_AHEAD, and the days timedelta(days=MONTHS_AHEAD * 30) counts
MONTHS_AHEAD == 4
HorizonDays == MONTHS_AHEAD * 30

\* the loop over months_lookup: the month of the first name, in dict order,
\* that text_lower contains; None when there is none
month_num(text_lower) ==
    LET hits == {i \in DOMAIN months_lookup :
                    Contains(text_lower, months_lookup[i].name)}
    IN  IF hits = {} THEN Null ELSE months_lookup[Min(hits)].month

\* where re.search(r'\b(\d{1,2})\b', text) can match: one or two digits
\* between two word boundaries
DayStarts(t) ==
    {i \in DOMAIN t :
        /\ IsDigit(t[i])
        /\ Boundary(t, i - 1)
        /\ \/ Boundary(t, i)
           \/ /\ i + 1 <= Len(t)
              /\ IsDigit(t[i + 1])
              /\ Boundary(t, i + 1)}

\* int(day_match.group(1)) of the leftmost match; None without a match
day_num(t) ==
    IF DayStarts(t) = {} THEN Null
    ELSE LET i == Min(DayStarts(t))
         IN  IF Boundary(t, i) THEN DigitValue(t[i])
             ELSE 10 * DigitValue(t[i]) + DigitValue(t[i + 1])

\* where re.search(r'\b(20\d{2})\b', text) can match
YearStarts(t) ==
    {i \in DOMAIN t :
        /\ i + 3 <= Len(t)
        /\ Boundary(t, i - 1)
        /\ t[i] = "2"
        /\ t[i + 1] = "0"
        /\ IsDigit(t[i + 2])
        /\ IsDigit(t[i + 3])
        /\ Boundary(t, i + 3)}

\* the same inference rolling over when the month equals the current month
year_num_rolls_on_equal(t, month, today) ==
    IF YearStarts(t) # {}
    THEN LET i == Min(YearStarts(t))
         IN  2000 + 10 * DigitValue(t[i + 2]) + DigitValue(t[i + 3])
    ELSE IF month <= today.month THEN today.year + 1 ELSE today.year

\* year_num: the year of the text, else the current year, the next one
\* when the month is before the current month
year_num(t, month, today) ==
    IF YearStarts(t) # {}
    THEN LET i == Min(YearStarts(t))
         IN  2000 + 10 * DigitValue(t[i + 2]) + DigitValue(t[i + 3])
    ELSE IF month < today.month THEN today.year + 1 ELSE today.year

\* the same function returning False when datetime(...) raises
is_within_date_range_strict(text, today) ==
    LET m == month_num(lower(text))
        d == day_num(text)
        y == year_num(text, m, today)
        t0 == toordinal(today.year, today.month, today.day)
    IN  IF m = Null THEN TRUE
        ELSE IF d = Null THEN TRUE
        ELSE IF ~ValidDate(y, m, d) THEN FALSE
        ELSE t0 <= toordinal(y, m, d)
                /\ toordinal(y, m, d) <= t0 + HorizonDays

\* is_within_date_range(text), with datetime.now().date() as a parameter
is_within_date_range(text, today) ==
    LET m == month_num(lower(text))
        d == day_num(text)
        y == year_num(text, m, today)
        t0 == toordinal(today.year, today.month, today.day)
    IN  IF m = Null THEN TRUE
        ELSE IF d = Null THEN TRUE
        ELSE IF ~ValidDate(y, m, d) THEN TRUE
        ELSE t0 <= toordinal(y, m, d)
                /\ toordinal(y, m, d) <= t0 + HorizonDays

\* ---------------------------------------------- gather_candidate_buttons

FRIDAY_SATURDAY_KEYWORDS ==
    {<<"f", "r", "i">>,
     <<"f", "r", "i", "d", "a", "y">>,
     <<"v", "e", "n", "d", "r", "e", "d", "i">>,
     <<"v", "e", "n">>,
     <<"s", "a", "t">>,
     <<"s", "a", "t", "u", "r", "d", "a", "y">>,
     <<"s", "a", "m", "e", "d", "i">>,
     <<"s", "a", "m">>}

\* is_friday_or_saturday(text)
is_friday_or_saturday(text) ==
    \E day \in FRIDAY_SATURDAY_KEYWORDS : Contains(lower(text), day)

Str_true == <<"t", "r", "u", "e">>
Str_disabled == <<"d", "i", "s", "a", "b", "l", "e", "d">>

\* what the loop body reads of one button: inner_text(), the attributes
\* aria-label, aria-disabled and class (None read as ""), whether the
\* attribute disabled is there, and whether one of the reads raises
Button(text, aria, disabled, aria_disabled, class, raises) ==
    [text |-> text, aria |-> aria, disabled |-> disabled,
     aria_disabled |-> aria_disabled, class |-> class, raises |-> raises]

\* combined = f"{text} {aria}" of the stripped text and label
combined(btn) == strip(btn.text) \o <<" ">> \o strip(btn.aria)

\* is_enabled of the loop body
is_enabled(btn) ==
    /\ ~btn.disabled
    /\ lower(btn.aria_disabled) # Str_true
    /\ ~Contains(lower(btn.class), Str_disabled)

\* aria or text
label_of(btn) ==
    IF strip(btn.aria) # <<>> THEN strip(btn.aria) ELSE strip(btn.text)

\* the loop body appends the button
is_candidate(btn, today) ==
    /\ ~btn.raises
    /\ strip(combined(btn)) # <<>>
    /\ is_friday_or_saturday(combined(btn))
    /\ is_enabled(btn)
    /\ is_within_date_range(combined(btn), today)

\* texts of the buttons below
Str_Friday10May ==
    <<"F", "r", "i", "d", "a", "y", " ", "1", "0", " ", "M", "a", "y">>
Str_Saturday11May ==
    <<"S", "a", "t", "u", "r", "d", "a", "y", " ", "1", "1", " ", "M",
        "a", "y">>
Str_Monday13May ==
    <<"M", "o", "n", "d", "a", "y", " ", "1", "3", " ", "M", "a", "y">>
Str_Friday25April ==
    <<"F", "r", "i", "d", "a", "y", " ", "2", "5", " ", "A", "p", "r",
        "i", "l">>
Str_Saturday31April ==
    <<"S", "a", "t", "u", "r", "d", "a", "y", " ", "3", "1", " ", "A",
        "p", "r", "i", "l">>
Str_Saturday20June ==
    <<"S", "a", "t", "u", "r", "d", "a", "y", " ", "2", "0", " ", "J",
        "u", "n", "e">>
Str_Samedi3Janvier2027 ==
    <<"S", "a", "m", "e", "d", "i", " ", "3", " ", "J", "a", "n", "v",
        "i", "e", "r", " ", "2", "0", "2", "7">>
Str_Vendredi ==
    <<"V", "e", "n", "d", "r", "e", "d", "i">>
Str_Friday ==
    <<"F", "r", "i", "d", "a", "y">>
Str_Blank ==
    <<" ">>
Str_Three ==
    <<"3">>
Str_TailwindClass ==
    <<"b", "t", "n", " ", "d", "i", "s", "a", "b", "l", "e", "d", ":",
        "o", "p", "a", "c", "i", "t", "y", "-", "5", "0">>

\* the buttons a page may show
PageButtons ==
    {Button(Str_Friday10May, <<>>, FALSE, <<>>, <<>>, FALSE),
     Button(Str_Saturday11May, <<>>, TRUE, <<>>, <<>>, FALSE),
     Button(Str_Monday13May, <<>>, FALSE, <<>>, <<>>, FALSE),
     Button(Str_Friday25April, <<>>, FALSE, <<>>, <<>>, FALSE),
     Button(Str_Saturday31April, <<>>, FALSE, <<>>, <<>>, FALSE),
     Button(Str_Saturday20June, <<>>, FALSE, Str_true, <<>>, FALSE),
     Button(Str_Saturday20June, <<>>, FALSE, <<>>, <<>>, FALSE),
     Button(Str_Three, Str_Samedi3Janvier2027, FALSE, <<>>, <<>>, FALSE),
     Button(Str_Vendredi, <<>>, FALSE, <<>>, <<>>, FALSE),
     Button(Str_Friday, <<>>, FALSE, <<>>, <<>>, FALSE),
     Button(Str_Blank, <<>>, FALSE, <<>>, <<>>, FALSE),
     Button(Str_Friday10May, <<>>, FALSE, <<>>, Str_TailwindClass, FALSE),
     Button(Str_Friday10May, <<>>, FALSE, <<>>, <<>>, TRUE)}

\* the days on which the page is scanned
Todays ==
    {[year |-> 2026, month |-> 3, day |-> 15],
     [year |-> 2026, month |-> 6, day |-> 15],
     [year |-> 2026, month |-> 12, day |-> 20]}

\* ------------------------------------------------- is_dinner_service
SERVICE_TYPE == "dinner"

DINNER_KEYWORDS ==
    {<<"d", "i", "n", "n", "e", "r">>,
     <<"d", "î", "n", "e", "r">>,
     <<"d", "i", "n", "e", "r">>,
     <<"s", "o", "i", "r">>,
     <<"e", "v", "e", "n", "i", "n", "g">>,
     <<"1", "9", ":">>,
     <<"2", "0", ":">>,
     <<"2", "1", ":">>}

LUNCH_KEYWORDS ==
    {<<"l", "u", "n", "c", "h">>,
     <<"d", "é", "j", "e", "u", "n", "e", "r">>,
     <<"d", "e", "j", "e", "u", "n", "e", "r">>,
     <<"m", "i", "d", "i">>,
     <<"1", "2", ":">>,
     <<"1", "3", ":">>,
     <<"1", "4", ":">>}

\* is_dinner_service(text)
is_dinner_service(text) ==
    IF SERVICE_TYPE = "dinner"
    THEN \E keyword \in DINNER_KEYWORDS : Contains(lower(text), keyword)
    ELSE IF SERVICE_TYPE = "lunch"
    THEN \E keyword \in LUNCH_KEYWORDS : Contains(lower(text), keyword)
    ELSE TRUE

\* the labels both advance steps try, in this order
NEXT_LABELS == <<"Suivant", "Next", "Continuer", "Continue">>

Str_1930 == <<"1", "9", ":", "3", "0">>
Str_2000 == <<"2", "0", ":", "0", "0">>
Str_1230 == <<"1", "2", ":", "3", "0">>

\* what the time-slot loop meets at one button: its text, whether the
\* attribute disabled is there, and what the calls on it come to: all
\* return, a read raises, click() raises, or click() returns and the
\* wait_for_load_state that follows times out
SlotOutcomes == {"ok", "read_raises", "click_raises", "wait_raises"}

TimeButtons ==
    [text : {Str_1930, Str_2000, Str_1230}, disabled : BOOLEAN,
     outcome : SlotOutcomes]

\* --------------------------------------------------------------- Init
\* the key sets of the state files the first invocation may find: complete,
\* empty, and complete but for one key that run_check reads with state[...];
\* and a complete file whose last_report_time is no ISO time stamp
InitKeySets ==
    {StateKeys, {}} \cup {StateKeys \ {k} : k \in StateKeys \ {"last_run_time"}}

InitFiles ==
    {NoDict(k) : k \in {"missing", "corrupt", "notdict"}}
        \cup {[DefaultState EXCEPT !.keys = ks, !.reservation_found = b] :
                 ks \in InitKeySets, b \in {FALSE}}
        \cup {[DefaultState EXCEPT !.last_report_time = Malformed]}

\* no guest selection and no advance click is pending
NoPrep == [guests |-> FALSE, next |-> FALSE]

\* the locals and the history of a process that has not started
NoProcess ==
    /\ state = DefaultState
    /\ loaded = DefaultState
    /\ browser = "none"
    /\ candidates = <<>>
    /\ idx = 0
    /\ available_dates = <<>>
    /\ exitStatus = "none"
    /\ probeLog = <<>>
    /\ navs = 0
    /\ gathers = 0
    /\ critical = "none"
    /\ alertAttempted = FALSE
    /\ alertDelivered = FALSE
    /\ foundSave = "none"
    /\ saveResult = "none"
    /\ reportResult = "none"
    /\ due = "none"
    /\ prep = NoPrep

Procs == {"A", "B"}

\* an invocation that has not started
NoInvocation ==
    [pc |-> "idle", state |-> DefaultState, saved |-> "none",
     foundSave |-> "none"]

\* no two invocations are followed
NoRace == [file |-> NoDict("missing"), procs |-> [p \in Procs |-> NoInvocation]]

\* no call of gather_candidate_buttons is followed on its own
NoCall ==
    [pc |-> "none", today |-> [year |-> 2026, month |-> 3, day |-> 15],
     buttons |-> <<>>, i |-> 1, candidates |-> <<>>, target |-> <<>>,
     clicked |-> 0]

\* no call of check_single_date is followed on its own
NoProbeCall ==
    [pc |-> "none", time_buttons |-> <<>>, i |-> 1,
     dinner_slot_found |-> FALSE, next_clicked |-> FALSE,
     events |-> <<>>, result |-> "none"]

\* no invocation of run_check is running and none has run
RunIdle ==
    /\ variant = "rc"
    /\ credentials = FALSE
    /\ file = NoDict("missing")
    /\ pc = "idle"
    /\ now = 0
    /\ lastSent = Null
    /\ alertRuns = 0
    /\ NoProcess

Init ==
    /\ variant \in Variants
    /\ credentials \in BOOLEAN
    /\ file \in InitFiles
    /\ pc = "idle"
    /\ now = 0
    /\ lastSent = Null
    /\ alertRuns = 0
    /\ NoProcess
    /\ gcb = NoCall
    /\ csd = NoProbeCall
    /\ race = NoRace

\* ------------------------------------------------------------ helpers
\* the process ends: sys.exit(0) or return (zero), or an exception that
\* leaves run_check (nonzero)
Exit(status) ==
    /\ pc' = "exited"
    /\ exitStatus' = status

\* an exception reaches run_check's `except Exception`
Caught(at) ==
    /\ pc' = "handler"
    /\ critical' = at

\* the locals and the history of a process that has ended are dropped
ProcessGone ==
    /\ state' = DefaultState
    /\ loaded' = DefaultState
    /\ browser' = "none"
    /\ candidates' = <<>>
    /\ idx' = 0
    /\ available_dates' = <<>>
    /\ exitStatus' = "none"
    /\ probeLog' = <<>>
    /\ navs' = 0
    /\ gathers' = 0
    /\ critical' = "none"
    /\ alertAttempted' = FALSE
    /\ alertDelivered' = FALSE
    /\ foundSave' = "none"
    /\ saveResult' = "none"
    /\ reportResult' = "none"
    /\ due' = "none"
    /\ prep' = NoPrep

NoMail == UNCHANGED <<alertAttempted, alertDelivered>>
NoProbe == UNCHANGED <<candidates, idx, available_dates, probeLog, prep>>

\* ------------------------------------------------------------ actions
\* the same step counting the run and saving before the "already found"
\* check
Invoke_counts_before_check ==
    /\ pc \in {"idle", "exited"}
    /\ LET s == load_state(file)
       IN  Has(s, "total_runs") /\ ~get_reservation_found(s)
               => s.total_runs < MaxRuns
    /\ state' = load_state(file)
    /\ loaded' = load_state(file)
    /\ browser' = "none"
    /\ candidates' = <<>>
    /\ idx' = 0
    /\ available_dates' = <<>>
    /\ probeLog' = <<>>
    /\ navs' = 0
    /\ gathers' = 0
    /\ critical' = "none"
    /\ alertAttempted' = FALSE
    /\ alertDelivered' = FALSE
    /\ foundSave' = "none"
    /\ saveResult' = "none"
    /\ reportResult' = "none"
    /\ due' = "none"
    /\ IF state'.kind # "dict" THEN Exit("nonzero")
       ELSE IF get_reservation_found(state') THEN Exit("zero")
       ELSE pc' = "start" /\ exitStatus' = "none"
    /\ file' = IF get_reservation_found(load_state(file))
               THEN [load_state(file) EXCEPT !.total_runs = @ + 1,
                                             !.last_run_time = now]
               ELSE file
    /\ UNCHANGED <<variant, credentials, now>>
    /\ UNCHANGED callVars
    /\ prep' = NoPrep
    /\ UNCHANGED <<lastSent, alertRuns>>

\* The periodic invoker starts the process: load_state, then the
\* "already found" check that precedes the try block.  A parsed file that
\* is not an object has no .get: the AttributeError leaves run_check.
Invoke ==
    /\ pc \in {"idle", "exited"}
    /\ LET s == load_state(file)
       IN  Has(s, "total_runs") /\ ~get_reservation_found(s)
               => s.total_runs < MaxRuns
    /\ state' = load_state(file)
    /\ loaded' = load_state(file)
    /\ browser' = "none"
    /\ candidates' = <<>>
    /\ idx' = 0
    /\ available_dates' = <<>>
    /\ probeLog' = <<>>
    /\ navs' = 0
    /\ gathers' = 0
    /\ critical' = "none"
    /\ alertAttempted' = FALSE
    /\ alertDelivered' = FALSE
    /\ foundSave' = "none"
    /\ saveResult' = "none"
    /\ reportResult' = "none"
    /\ due' = "none"
    /\ IF state'.kind # "dict" THEN Exit("nonzero")
       ELSE IF get_reservation_found(state') THEN Exit("zero")
       ELSE pc' = "start" /\ exitStatus' = "none"
    /\ UNCHANGED <<variant, credentials, file, now>>
    /\ UNCHANGED callVars
    /\ prep' = NoPrep
    /\ UNCHANGED <<lastSent, alertRuns>>

\* state["total_runs"] += 1; state["last_run_time"] = now
Start ==
    /\ pc = "start"
    /\ IF Has(state, "total_runs")
       THEN /\ state' = [state EXCEPT !.total_runs = @ + 1,
                                       !.last_run_time = now,
                                       !.keys = @ \cup {"last_run_time"}]
            /\ pc' = "launch"
            /\ UNCHANGED critical
       ELSE /\ Caught("start")
            /\ UNCHANGED state
    /\ saveResult' = "none"
    /\ reportResult' = "none"
    /\ due' = "none"
    /\ NoMail /\ NoProbe
    /\ UNCHANGED <<variant, credentials, file, browser, now, exitStatus, loaded, navs, gathers, foundSave>>
    /\ UNCHANGED callVars
    /\ UNCHANGED <<lastSent, alertRuns>>

\* async_playwright(), chromium.launch, new_page
Launch ==
    /\ pc = "launch"
    /\ \E r \in {"ok", "launch_raises", "new_page_raises"} :
          /\ browser' = IF r = "launch_raises" THEN "none" ELSE "open"
          /\ IF r = "ok" THEN pc' = "navigate" /\ UNCHANGED critical
             ELSE Caught("launch")
    /\ saveResult' = "none"
    /\ reportResult' = "none"
    /\ due' = "none"
    /\ NoMail /\ NoProbe
    /\ UNCHANGED <<variant, credentials, file, state, now, exitStatus, loaded, navs, gathers, foundSave>>
    /\ UNCHANGED callVars
    /\ UNCHANGED <<lastSent, alertRuns>>

\* the first page.goto; the guest selection and the advance click that
\* follow it swallow their failures and leave nothing behind
Navigate ==
    /\ pc = "navigate"
    /\ navs' = navs + 1
    /\ \E gotoOk \in BOOLEAN :
          IF gotoOk THEN pc' = "gather" /\ UNCHANGED critical
          ELSE Caught("navigate")
    /\ saveResult' = "none"
    /\ reportResult' = "none"
    /\ due' = "none"
    /\ NoMail /\ NoProbe
    /\ UNCHANGED <<variant, credentials, file, state, browser, now, exitStatus,
                   loaded, gathers, foundSave>>
    /\ UNCHANGED callVars
    /\ UNCHANGED <<lastSent, alertRuns>>

\* check_dates: candidates = gather_candidate_buttons(page); an empty list
\* ends check_dates with []
Gather ==
    /\ pc = "gather"
    /\ gathers' = gathers + 1
    /\ \E queryOk \in BOOLEAN :
          IF queryOk
          THEN \E k \in 0..MaxCand :
                  /\ candidates' = [i \in 1..k |-> i]
                  /\ idx' = IF k = 0 THEN 0 ELSE 1
                  /\ pc' = IF k = 0 THEN "close" ELSE "reset"
                  /\ UNCHANGED critical
          ELSE /\ Caught("gather")
               /\ UNCHANGED <<candidates, idx>>
    /\ saveResult' = "none"
    /\ reportResult' = "none"
    /\ due' = "none"
    /\ NoMail
    /\ UNCHANGED <<variant, credentials, file, state, browser, now, exitStatus,
                   loaded, navs, foundSave, available_dates,
                   probeLog>>
    /\ UNCHANGED callVars
    /\ UNCHANGED prep
    /\ UNCHANGED <<lastSent, alertRuns>>

\* check_dates, loop body before check_single_date: page.goto outside any
\* try, then the guest selection and the advance click over the four
\* labels; a failure of either is swallowed and nothing records whether a
\* label responded
Reset ==
    /\ pc = "reset"
    /\ navs' = navs + 1
    /\ \E gotoOk \in BOOLEAN :
          IF gotoOk
          THEN /\ pc' = "probe"
               /\ \E guestsOk \in BOOLEAN, nextOk \in BOOLEAN :
                      prep' = [guests |-> guestsOk, next |-> nextOk]
               /\ UNCHANGED critical
          ELSE /\ Caught("reset")
               /\ UNCHANGED prep
    /\ saveResult' = "none"
    /\ reportResult' = "none"
    /\ due' = "none"
    /\ NoMail
    /\ UNCHANGED <<candidates, idx, available_dates, probeLog>>
    /\ UNCHANGED <<variant, credentials, file, state, browser, now, exitStatus,
                   loaded, gathers, foundSave>>
    /\ UNCHANGED callVars
    /\ UNCHANGED <<lastSent, alertRuns>>

\* check_dates: if await check_single_date(page, label): append(label);
\* after the last candidate run_check takes `if results:` or its else
Probe ==
    /\ pc = "probe"
    /\ \E failStep \in ProbeSteps(variant) \cup {"none"},
          form \in BOOLEAN, phrase \in BOOLEAN :
          LET reached == failStep = "none"
              ret == check_single_date(variant, failStep, form, phrase)
              found == IF ret THEN Append(available_dates, candidates[idx])
                       ELSE available_dates
          IN  /\ (~reached) => (~form /\ ~phrase)
              /\ probeLog' = Append(probeLog,
                      [label |-> candidates[idx], error |-> ~reached,
                       clicked |-> date_clicked(failStep),
                       form |-> form, phrase |-> phrase, returned |-> ret])
              /\ prep' = NoPrep
              /\ available_dates' = found
              /\ IF idx < Len(candidates)
                 THEN pc' = "reset" /\ idx' = idx + 1
                 ELSE /\ idx' = idx
                      /\ pc' = IF found # <<>> THEN "found" ELSE "close"
    /\ saveResult' = "none"
    /\ reportResult' = "none"
    /\ due' = "none"
    /\ NoMail
    /\ UNCHANGED <<variant, credentials, file, state, browser, now, exitStatus,
                   loaded, navs, gathers, foundSave, critical,
                   candidates>>
    /\ UNCHANGED callVars
    /\ UNCHANGED <<lastSent, alertRuns>>

\* the same step with save_state called before the flag and the counter are
\* updated
Found_save_before_update ==
    /\ pc = "found"
    /\ IF Has(state, "successful_finds")
       THEN \E o \in SaveOutcomes :
              /\ file' = save_state(file, state, o)
              /\ state' = [state EXCEPT !.successful_finds = @ + 1,
                                         !.reservation_found = TRUE,
                                         !.keys = @ \cup {"reservation_found"}]
              /\ foundSave' = o
              /\ saveResult' = o
              /\ pc' = "alert"
              /\ UNCHANGED critical
       ELSE /\ Caught("found")
            /\ saveResult' = "none"
            /\ UNCHANGED <<state, file, foundSave>>
    /\ reportResult' = "none"
    /\ due' = "none"
    /\ NoMail
    /\ probeLog' = <<>>
    /\ UNCHANGED <<candidates, idx, available_dates>>
    /\ UNCHANGED <<variant, credentials, browser, now, exitStatus, loaded,
                   navs, gathers>>
    /\ UNCHANGED callVars
    /\ UNCHANGED prep
    /\ UNCHANGED <<lastSent, alertRuns>>

\* run_check, `if results:` up to the first save_state
Found ==
    /\ pc = "found"
    /\ IF Has(state, "successful_finds")
       THEN \E o \in SaveOutcomes :
              /\ state' = [state EXCEPT !.successful_finds = @ + 1,
                                         !.reservation_found = TRUE,
                                         !.keys = @ \cup {"reservation_found"}]
              /\ file' = save_state(file, state', o)
              /\ foundSave' = o
              /\ saveResult' = o
              /\ pc' = "alert"
              /\ UNCHANGED critical
       ELSE /\ Caught("found")
            /\ saveResult' = "none"
            /\ UNCHANGED <<state, file, foundSave>>
    /\ reportResult' = "none"
    /\ due' = "none"
    /\ NoMail
    /\ probeLog' = <<>>
    /\ UNCHANGED <<candidates, idx, available_dates>>
    /\ UNCHANGED <<variant, credentials, browser, now, exitStatus, loaded,
                   navs, gathers>>
    /\ UNCHANGED callVars
    /\ UNCHANGED prep
    /\ UNCHANGED <<lastSent, alertRuns>>

\* the same step with a send_email that lets its failure through
Alert_send_raises ==
    /\ pc = "alert"
    /\ \E o1 \in SendOutcomesFor(credentials),
          o2 \in SendOutcomesFor(credentials) :
          /\ alertAttempted' = TRUE
          /\ alertDelivered' = send_email(o1)
          /\ IF send_email(o1) /\ send_email(o2)
             THEN pc' = "close_found" /\ UNCHANGED critical
             ELSE Caught("alert")
    /\ saveResult' = "none"
    /\ reportResult' = "none"
    /\ due' = "none"
    /\ NoProbe
    /\ UNCHANGED <<variant, credentials, file, state, browser, now, exitStatus,
                   loaded, navs, gathers, foundSave>>
    /\ UNCHANGED callVars
    /\ alertRuns' = IF alertRuns < MaxAlerts THEN alertRuns + 1
                    ELSE alertRuns
    /\ UNCHANGED lastSent

\* send_availability_alert(results): two send_email calls, neither raises
Alert ==
    /\ pc = "alert"
    /\ \E o1 \in SendOutcomesFor(credentials),
          o2 \in SendOutcomesFor(credentials) :
          /\ alertAttempted' = TRUE
          /\ alertDelivered' = (send_email(o1) \/ send_email(o2))
    /\ pc' = "close_found"
    /\ saveResult' = "none"
    /\ reportResult' = "none"
    /\ due' = "none"
    /\ NoProbe
    /\ UNCHANGED <<variant, credentials, file, state, browser, now, exitStatus,
                   loaded, navs, gathers, foundSave, critical>>
    /\ UNCHANGED callVars
    /\ alertRuns' = IF alertRuns < MaxAlerts THEN alertRuns + 1
                    ELSE alertRuns
    /\ UNCHANGED lastSent

\* browser.close() then sys.exit(0), inside the try block: SystemExit is
\* no Exception and ends the process, a failing close is caught
CloseFound ==
    /\ pc = "close_found"
    /\ \E closeOk \in BOOLEAN :
          IF closeOk THEN Exit("zero") /\ UNCHANGED critical
          ELSE Caught("close_found") /\ UNCHANGED exitStatus
    /\ saveResult' = "none"
    /\ reportResult' = "none"
    /\ due' = "none"
    /\ NoMail /\ NoProbe
    /\ UNCHANGED <<variant, credentials, file, state, browser, now, loaded,
                   navs, gathers, foundSave>>
    /\ UNCHANGED callVars
    /\ UNCHANGED <<lastSent, alertRuns>>

\* the browser.close() that ends the try block when nothing was found
Close ==
    /\ pc = "close"
    /\ \E closeOk \in BOOLEAN :
          IF closeOk THEN pc' = "final_save" /\ UNCHANGED critical
          ELSE Caught("close")
    /\ saveResult' = "none"
    /\ reportResult' = "none"
    /\ due' = "none"
    /\ NoMail
    /\ probeLog' = <<>>
    /\ UNCHANGED <<candidates, idx, available_dates>>
    /\ UNCHANGED <<variant, credentials, file, state, browser, now, exitStatus,
                   loaded, navs, gathers, foundSave>>
    /\ UNCHANGED callVars
    /\ UNCHANGED prep
    /\ UNCHANGED <<lastSent, alertRuns>>

\* whether an exception of the handler's own browser.close() leaves the
\* handler: reservation_checker.py wraps the call in try/except,
\* monitor.py does not
handler_close_escapes(v, closeOk) == v = "mon" /\ ~closeOk

\* except Exception: if browser: await browser.close()
Handler ==
    /\ pc = "handler"
    /\ IF browser = "open"
       THEN \E closeOk \in BOOLEAN :
              IF handler_close_escapes(variant, closeOk)
              THEN Exit("nonzero")
              ELSE pc' = "final_save" /\ UNCHANGED exitStatus
       ELSE pc' = "final_save" /\ UNCHANGED exitStatus
    /\ saveResult' = "none"
    /\ reportResult' = "none"
    /\ due' = "none"
    /\ NoMail
    /\ probeLog' = <<>>
    /\ UNCHANGED <<candidates, idx, available_dates>>
    /\ UNCHANGED <<variant, credentials, file, state, browser, now, loaded,
                   navs, gathers, foundSave, critical>>
    /\ UNCHANGED callVars
    /\ UNCHANGED prep
    /\ UNCHANGED <<lastSent, alertRuns>>

\* the same step with a save_state that lets its exception through
FinalSave_save_raises ==
    /\ pc = "final_save"
    /\ \E o \in SaveOutcomes :
          /\ file' = save_state(file, state, o)
          /\ saveResult' = o
          /\ IF o = "ok" THEN pc' = "report" /\ UNCHANGED exitStatus
             ELSE Exit("nonzero")
    /\ reportResult' = "none"
    /\ due' = "none"
    /\ NoMail /\ NoProbe
    /\ UNCHANGED <<variant, credentials, state, browser, now, loaded, navs, gathers,
                   foundSave, critical>>
    /\ UNCHANGED callVars
    /\ UNCHANGED <<lastSent, alertRuns>>

\* the save_state(state) after the try block
FinalSave ==
    /\ pc = "final_save"
    /\ \E o \in SaveOutcomes :
          /\ file' = save_state(file, state, o)
          /\ saveResult' = o
    /\ pc' = "report"
    /\ reportResult' = "none"
    /\ due' = "none"
    /\ NoMail /\ NoProbe
    /\ UNCHANGED <<variant, credentials, state, browser, now, exitStatus, loaded, navs, gathers, foundSave, critical>>
    /\ UNCHANGED callVars
    /\ UNCHANGED <<lastSent, alertRuns>>

\* whether run_check stamps last_report_time after send_status_report:
\* reservation_checker.py only when it returned True, monitor.py always
stamps_report(v, sent) == v = "mon" \/ sent

\* if should_send_report(state): send_status_report(state); ...; return.
\* state["last_report_time"] and the state[...] reads of the report body
\* are outside every try: a missing key leaves run_check as a KeyError.
Report ==
    /\ pc = "report"
    /\ IF ~Has(state, "last_report_time")
       THEN /\ Exit("nonzero")
            /\ due' = "raises"
            /\ UNCHANGED <<lastSent, alertRuns>>
            /\ reportResult' = "none"
            /\ saveResult' = "none"
            /\ UNCHANGED <<state, file>>
       ELSE IF ~should_send_report(state, now)
       THEN /\ Exit("zero")
            /\ due' = "false"
            /\ UNCHANGED <<lastSent, alertRuns>>
            /\ reportResult' = "none"
            /\ saveResult' = "none"
            /\ UNCHANGED <<state, file>>
       ELSE IF ~(ReportKeys \subseteq state.keys)
       THEN /\ Exit("nonzero")
            /\ due' = "true"
            /\ UNCHANGED <<lastSent, alertRuns>>
            /\ reportResult' = "none"
            /\ saveResult' = "none"
            /\ UNCHANGED <<state, file>>
       ELSE \E so \in SendOutcomesFor(credentials) :
              /\ due' = "true"
              /\ reportResult' = IF send_email(so) THEN "sent" ELSE "failed"
              /\ lastSent' = IF send_email(so) THEN now ELSE lastSent
              /\ UNCHANGED alertRuns
              /\ IF stamps_report(variant, send_email(so))
                 THEN \E o \in SaveOutcomes :
                        /\ state' = [state EXCEPT !.last_report_time = now]
                        /\ file' = save_state(file, state', o)
                        /\ saveResult' = o
                 ELSE /\ saveResult' = "none"
                      /\ UNCHANGED <<state, file>>
              /\ Exit("zero")
    /\ NoMail /\ NoProbe
    /\ UNCHANGED <<variant, credentials, browser, now, loaded, navs,
                   gathers, foundSave, critical>>
    /\ UNCHANGED callVars

\* time passes between two invocations; the locals of a process that has
\* ended are gone
Tick ==
    /\ pc \in {"idle", "exited"}
    /\ \E d \in TickSteps :
          /\ now + d <= MaxTime
          /\ now' = now + d
    /\ pc' = "idle"
    /\ ProcessGone
    /\ UNCHANGED <<variant, credentials, file>>
    /\ UNCHANGED callVars
    /\ UNCHANGED <<lastSent, alertRuns>>

\* the operator deletes run_state.json ("To restart monitoring, delete
\* run_state.json")
ExternalReset ==
    /\ pc \in {"idle", "exited"}
    /\ file.kind # "missing"
    /\ file' = NoDict("missing")
    /\ pc' = "idle"
    /\ ProcessGone
    /\ UNCHANGED <<variant, credentials, now>>
    /\ UNCHANGED callVars
    /\ alertRuns' = 0
    /\ UNCHANGED lastSent

Next ==
    \/ Invoke
    \/ Start
    \/ Launch
    \/ Navigate
    \/ Gather
    \/ Reset
    \/ Probe
    \/ Found
    \/ Alert
    \/ CloseFound
    \/ Close
    \/ Handler
    \/ FinalSave
    \/ Report
    \/ Tick
    \/ ExternalReset

Spec == Init /\ [][Next]_vars

\* ===================================================================
\* One call of gather_candidate_buttons
\* ===================================================================

\* all lists of at most n page buttons, in DOM order
ButtonLists(n) == UNION {[1..k -> PageButtons] : k \in 0..n}

\* the call starts: `buttons` is what query_selector_all("button")
\* returned, `candidates` is empty, the loop is at the first button
FilterInit ==
    /\ gcb \in {[pc |-> "loop", today |-> t, buttons |-> bs, i |-> 1,
                 candidates |-> <<>>, target |-> <<>>, clicked |-> 0] :
                    t \in Todays, bs \in ButtonLists(MaxButtons)}
    /\ csd = NoProbeCall
    /\ race = NoRace
    /\ RunIdle

\* one iteration of `for btn in buttons`
ScanButton ==
    /\ gcb.pc = "loop"
    /\ gcb.i <= Len(gcb.buttons)
    /\ LET btn == gcb.buttons[gcb.i]
       IN  gcb' = [gcb EXCEPT
                     !.i = @ + 1,
                     !.candidates =
                         IF is_candidate(btn, gcb.today)
                         THEN Append(@, [btn |-> gcb.i,
                                         label |-> label_of(btn)])
                         ELSE @]
    /\ UNCHANGED <<runVars, csd, race>>

\* return candidates
ReturnCandidates ==
    /\ gcb.pc = "loop"
    /\ gcb.i > Len(gcb.buttons)
    /\ gcb' = [gcb EXCEPT !.pc = "returned"]
    /\ UNCHANGED <<runVars, csd, race>>

\* the labels check_dates can hand to check_single_date: those of the
\* candidates it gathered on the same day before the reset
TargetLabels(today) ==
    {label_of(b) : b \in {c \in PageButtons : is_candidate(c, today)}}

\* `label in btn_label or btn_label in label`
label_matches(label, btn_label) ==
    Contains(btn_label, label) \/ Contains(label, btn_label)

\* the search of check_single_date in the list it re-acquired: target_btn
\* is the first candidate whose label matches, None (0) without a match
target_btn(cands, label) ==
    LET hits == {j \in DOMAIN cands : label_matches(label, cands[j].label)}
    IN  IF hits = {} THEN 0 ELSE Min(hits)

\* check_single_date(page, label) after its gather_candidate_buttons call:
\* the search for target_btn, and the click or `return False`
Locate ==
    /\ gcb.pc = "returned"
    /\ \E label \in TargetLabels(gcb.today) :
          gcb' = [gcb EXCEPT !.pc = "located",
                             !.target = label,
                             !.clicked = target_btn(gcb.candidates, label)]
    /\ UNCHANGED <<runVars, csd, race>>

FilterNext ==
    \/ ScanButton
    \/ ReturnCandidates
    \/ Locate

FilterSpec == FilterInit /\ [][FilterNext]_vars

\* ===================================================================
\* One call of check_single_date (reservation_checker.py)
\* ===================================================================

\* all lists of at most n time buttons, in DOM order
TimeButtonLists(n) == UNION {[1..k -> TimeButtons] : k \in 0..n}

\* one more event of the call
Event(kind, at) == [kind |-> kind, at |-> at]

\* the call starts; time_buttons is what the page shows after the date click
ProbeInit ==
    /\ csd \in {[pc |-> "date", time_buttons |-> tbs, i |-> 1,
                 dinner_slot_found |-> FALSE, next_clicked |-> FALSE,
                 events |-> <<>>, result |-> "none"] :
                    tbs \in TimeButtonLists(MaxSlots)}
    /\ gcb = NoCall
    /\ race = NoRace
    /\ RunIdle

\* `return False`, by the statement or by the function's except
ReturnFalse == [csd EXCEPT !.pc = "returned", !.result = "False"]

\* gather_candidate_buttons, the search for the label, the click on the
\* date button and the wait that follows it
ClickDate ==
    /\ csd.pc = "date"
    /\ \E r \in {"ok", "gather_raises", "not_found", "click_raises",
                 "wait_raises"} :
          csd' = IF r = "ok"
                 THEN [csd EXCEPT !.pc = "query",
                                  !.events = Append(@, Event("date", 0))]
                 ELSE IF r = "wait_raises"
                 THEN [ReturnFalse EXCEPT
                          !.events = Append(@, Event("date", 0))]
                 ELSE ReturnFalse
    /\ UNCHANGED <<runVars, gcb, race>>

\* time_buttons = await page.query_selector_all("button")
QuerySlots ==
    /\ csd.pc = "query"
    /\ \E queryOk \in BOOLEAN :
          csd' = IF queryOk THEN [csd EXCEPT !.pc = "slots"]
                 ELSE ReturnFalse
    /\ UNCHANGED <<runVars, gcb, race>>

\* one iteration of `for time_btn in time_buttons`: every exception of the
\* body is swallowed by its bare except and the loop goes on; only the
\* statements after the wait set dinner_slot_found and break
ScanSlot ==
    /\ csd.pc = "slots"
    /\ csd.i <= Len(csd.time_buttons)
    /\ LET btn == csd.time_buttons[csd.i]
           clicks == btn.outcome # "read_raises"
                        /\ is_dinner_service(btn.text)
                        /\ ~btn.disabled
                        /\ btn.outcome # "click_raises"
           clicked == IF clicks
                      THEN Append(csd.events, Event("slot", csd.i))
                      ELSE csd.events
       IN  csd' = IF clicks /\ btn.outcome = "ok"
                  THEN [csd EXCEPT !.events = clicked,
                                   !.dinner_slot_found = TRUE,
                                   !.pc = "advance"]
                  ELSE [csd EXCEPT !.events = clicked, !.i = @ + 1]
    /\ UNCHANGED <<runVars, gcb, race>>

\* the loop ends without a break
SlotsDone ==
    /\ csd.pc = "slots"
    /\ csd.i > Len(csd.time_buttons)
    /\ csd' = [csd EXCEPT !.pc = "advance"]
    /\ UNCHANGED <<runVars, gcb, race>>

\* the loop over NEXT_LABELS: k is the first label that responds to the
\* click, 0 when none does; then `if not next_clicked: return False` and
\* the wait for the next page
Advance ==
    /\ csd.pc = "advance"
    /\ \E k \in 0..Len(NEXT_LABELS), waitOk \in BOOLEAN :
          csd' = IF k = 0 THEN ReturnFalse
                 ELSE IF waitOk
                 THEN [csd EXCEPT !.pc = "classify",
                                  !.next_clicked = TRUE,
                                  !.events = Append(@, Event("advance", k))]
                 ELSE [ReturnFalse EXCEPT
                          !.next_clicked = TRUE,
                          !.events = Append(@, Event("advance", k))]
    /\ UNCHANGED <<runVars, gcb, race>>

\* reached_booking_step, then is_fully_booked, and the return of either
Classify ==
    /\ csd.pc = "classify"
    /\ \E form \in BOOLEAN, phrase \in BOOLEAN :
          csd' = [csd EXCEPT
                    !.pc = "returned",
                    !.events = Append(@, Event("classify", 0)),
                    !.result = IF classify_rc(form, phrase) THEN "True"
                               ELSE "False"]
    /\ UNCHANGED <<runVars, gcb, race>>

ProbeNext ==
    \/ ClickDate
    \/ QuerySlots
    \/ ScanSlot
    \/ SlotsDone
    \/ Advance
    \/ Classify

ProbeSpec == ProbeInit /\ [][ProbeNext]_vars

\* ===================================================================
\* Two overlapping invocations of run_check on one state file
\* ===================================================================
\* the state file is absent or holds the state of a monitor that has found
\* nothing so far; both invocations are about to start
RaceInit ==
    /\ race \in {[file |-> f, procs |-> [p \in Procs |-> NoInvocation]] :
                    f \in {NoDict("missing"), DefaultState}}
    /\ variant \in Variants
    /\ credentials \in BOOLEAN
    /\ file = NoDict("missing")
    /\ pc = "idle"
    /\ now = 0
    /\ lastSent = Null
    /\ alertRuns = 0
    /\ NoProcess
    /\ gcb = NoCall
    /\ csd = NoProbeCall

\* process p takes a step to the record q, leaving the file with f
RaceStep(p, q, f) ==
    /\ race' = [file |-> f, procs |-> [race.procs EXCEPT ![p] = q]]
    /\ UNCHANGED <<runVars, gcb, csd>>

\* load_state() and the "already found" check; nothing is locked
RaceInvoke(p) ==
    LET me == race.procs[p]
        s == load_state(race.file)
    IN  /\ me.pc = "idle"
        /\ RaceStep(p, [me EXCEPT !.state = s,
                                  !.pc = IF get_reservation_found(s)
                                         THEN "exited" ELSE "run"],
                    race.file)

\* the try block up to its first save_state: the counters of the run, then
\* the browser and check_dates, which find something, find nothing, or fail
RaceCheck(p) ==
    LET me == race.procs[p]
        ran == [me.state EXCEPT !.total_runs = @ + 1, !.last_run_time = now]
    IN  /\ me.pc = "run"
        /\ \E r \in {"found", "nothing", "critical"} :
              RaceStep(p,
                  IF r = "found"
                  THEN [me EXCEPT !.pc = "found_save",
                           !.state = [ran EXCEPT
                                         !.successful_finds = @ + 1,
                                         !.reservation_found = TRUE]]
                  ELSE [me EXCEPT !.pc = "final_save", !.state = ran],
                  race.file)

\* save_state(state) after a find, the alert, browser.close() and
\* sys.exit(0); a failing close leads to the handler and the final save
RaceFoundSave(p) ==
    LET me == race.procs[p]
    IN  /\ me.pc = "found_save"
        /\ \E o \in SaveOutcomes, closeOk \in BOOLEAN :
              RaceStep(p,
                  [me EXCEPT !.saved = o, !.foundSave = o,
                             !.pc = IF closeOk THEN "exited"
                                    ELSE "final_save"],
                  save_state(race.file, me.state, o))

\* the same step with a save_state that re-reads the file and keeps a
\* reservation_found flag it already holds
RaceFinalSave_merging(p) ==
    LET me == race.procs[p]
        merged == [me.state EXCEPT !.reservation_found =
                      @ \/ get_reservation_found(load_state(race.file))]
    IN  /\ me.pc = "final_save"
        /\ \E o \in SaveOutcomes :
              RaceStep(p, [me EXCEPT !.saved = o, !.pc = "report"],
                       save_state(race.file, merged, o))

\* the save_state(state) after the try block
RaceFinalSave(p) ==
    LET me == race.procs[p]
    IN  /\ me.pc = "final_save"
        /\ \E o \in SaveOutcomes :
              RaceStep(p, [me EXCEPT !.saved = o, !.pc = "report"],
                       save_state(race.file, me.state, o))

\* should_send_report, send_status_report, the stamp and its save_state
RaceReport(p) ==
    LET me == race.procs[p]
        stamped == [me.state EXCEPT !.last_report_time = now]
    IN  /\ me.pc = "report"
        /\ IF ~should_send_report(me.state, now)
           THEN RaceStep(p, [me EXCEPT !.saved = "none", !.pc = "exited"],
                         race.file)
           ELSE \E so \in SendOutcomesFor(credentials), o \in SaveOutcomes :
                  IF stamps_report(variant, send_email(so))
                  THEN RaceStep(p, [me EXCEPT !.saved = o, !.pc = "exited",
                                              !.state = stamped],
                                save_state(race.file, stamped, o))
                  ELSE RaceStep(p, [me EXCEPT !.saved = "none",
                                              !.pc = "exited"],
                                race.file)

RaceNext ==
    \/ \E p \in Procs : RaceInvoke(p)
    \/ \E p \in Procs : RaceCheck(p)
    \/ \E p \in Procs : RaceFoundSave(p)
    \/ \E p \in Procs : RaceFinalSave(p)
    \/ \E p \in Procs : RaceReport(p)

RaceSpec == RaceInit /\ [][RaceNext]_vars

\* ===================================================================
\* Properties
\* ===================================================================

\* a run state with all five keys
Complete(s) == s.kind = "dict" /\ s.keys = StateKeys

\* the run state the file holds has reservation_found = true
PersistedFound(f) ==
    f.kind = "dict" /\ "reservation_found" \in f.keys /\ f.reservation_found

\* a process is running or has just ended
InInvocation == pc # "idle"

\* the outcome of one probe, as the classification of BookingStepDetector
Outcome(e) ==
    IF e.error THEN "ProbeError"
    ELSE IF e.phrase THEN "FullyBooked"
    ELSE IF e.form THEN "Available"
    ELSE "Indeterminate"

AnyAvailable(log) == \E i \in DOMAIN log : Outcome(log[i]) = "Available"

C2_FindsFollowAvailable ==
    [][ /\ (pc \notin {"idle", "exited"}
             /\ state'.successful_finds # state.successful_finds)
            => /\ state'.successful_finds = state.successful_finds + 1
               /\ state.successful_finds = loaded.successful_finds
               /\ AnyAvailable(probeLog)
        /\ (pc = "probe" /\ pc' = "close") => ~AnyAvailable(probeLog')
      ]_vars

\* C3: within an invocation last_report_time changes only in a step whose
\* status report was sent.
C3_StampOnlyWhenSent ==
    [][ (pc \notin {"idle", "exited"}
            /\ state'.last_report_time # state.last_report_time)
           => reportResult' = "sent" ]_vars

\* C4 as stated: whenever the alert has been attempted the file holds
\* reservation_found = true and the incremented successful_finds.
C4_FlagPersistedBeforeAlert ==
    (pc = "close_found" \/ alertAttempted) =>
        /\ PersistedFound(file)
        /\ file.successful_finds = loaded.successful_finds + 1

\* C4 amended: save_state is called with reservation_found = true and the
\* incremented successful_finds before the alert is attempted; when that
\* call wrote the file, the file holds them while the alert is sent, the
\* browser is closed and a failure of either is handled.
C4_SaveAttemptedBeforeAlert ==
    /\ (pc \in {"alert", "close_found"} \/ alertAttempted) =>
            /\ foundSave # "none"
            /\ state.reservation_found
            /\ state.successful_finds = loaded.successful_finds + 1
    /\ (foundSave = "ok"
            /\ pc \in {"alert", "close_found", "handler", "final_save"}) =>
            /\ PersistedFound(file)
            /\ file.successful_finds = loaded.successful_finds + 1
            /\ file = state

\* the alert failed, browser.close() raised, and the flag is still in the file
C4_Witness ==
    /\ pc = "handler"
    /\ critical = "close_found"
    /\ alertAttempted
    /\ ~alertDelivered
    /\ foundSave = "ok"
    /\ PersistedFound(file)

\* check_dates has ended, by return or by an exception
CheckDatesEnded ==
    \/ pc \in {"found", "close"}
    \/ pc = "handler" /\ critical \in {"gather", "reset"}

\* C5: when check_dates has ended every gathered candidate was probed, and
\* no candidate whose probe failed is among the available dates.
C5_FailureIsolated ==
    CheckDatesEnded =>
        /\ Len(probeLog) = Len(candidates)
        /\ \A i \in DOMAIN probeLog :
              probeLog[i].error =>
                  \A j \in DOMAIN available_dates :
                      available_dates[j] # probeLog[i].label

\* C6: a probed page with a fully-booked phrase is never taken as available,
\* and a page is taken as available only with a form field and no phrase.
C6_PhrasePrecedence ==
    \A i \in DOMAIN probeLog :
        /\ probeLog[i].phrase => ~probeLog[i].returned
        /\ probeLog[i].returned => Outcome(probeLog[i]) = "Available"

\* C7: no invocation ends with a non-zero exit status.
C7_ExitsZero == exitStatus # "nonzero"

\* the exception was raised above the per-candidate boundary
CriticalAbove == critical \in {"launch", "navigate", "gather", "reset"}

\* C8: after an exception above the per-candidate boundary, in an invocation
\* that loaded a complete run state, the final save_state runs and, when it
\* writes the file, the file holds total_runs one above the loaded value, a
\* last_run_time, and the loaded reservation_found and successful_finds;
\* the report-due check follows and the invocation ends with status zero.
C8_CriticalStillSaved ==
    (CriticalAbove /\ Complete(loaded)) =>
        /\ (pc = "report" /\ saveResult = "ok") =>
               /\ file.total_runs = loaded.total_runs + 1
               /\ file.last_run_time # Null
               /\ file.reservation_found = loaded.reservation_found
               /\ file.successful_finds = loaded.successful_finds
        /\ pc = "exited" => exitStatus = "zero"

\* C9: load_state always yields a complete run state: the file's own when
\* the file holds one, else the zeroed default.
C9_LoadYieldsRunState ==
    InInvocation =>
        /\ Complete(loaded)
        /\ (pc = "start" /\ ~Complete(file)) => state = DefaultState

SaveFailed(r) == r \in {"open_fails", "write_fails"}

\* C10 as stated: a failing save_state leaves the file as it was and the
\* invocation goes on.
C10_FailedSaveKeepsFile ==
    [][ SaveFailed(saveResult') =>
          /\ file' = file
          /\ pc' \in {"alert", "report", "exited"} ]_vars

\* C10 amended: a failing save_state leaves the file as it was when the
\* open failed and truncated (unparseable) when the write failed; in both
\* cases the invocation takes the step it takes after a successful save,
\* with the in-memory state it would have had.
C10_FailedSaveNonFatal ==
    [][ SaveFailed(saveResult') =>
          /\ saveResult' = "open_fails" => file' = file
          /\ saveResult' = "write_fails" => file'.kind = "corrupt"
          /\ pc = "found" =>
                 /\ pc' = "alert"
                 /\ state'.reservation_found
                 /\ state'.successful_finds = state.successful_finds + 1
          /\ pc = "final_save" => (pc' = "report" /\ state' = state)
          /\ pc = "report" =>
                 /\ pc' = "exited"
                 /\ exitStatus' = "zero"
                 /\ state'.last_report_time = now
          /\ pc \in {"found", "final_save", "report"} ]_vars

\* the save after a find failed while writing, and the alert is next
C10_Witness ==
    /\ pc = "alert"
    /\ saveResult = "write_fails"
    /\ file.kind = "corrupt"
    /\ state.reservation_found

\* a last_report_time that is a parsed time stamp
IsTimestamp(v) == v # Null /\ v # Malformed

\* C11 as stated: on a state that has last_report_time, should_send_report
\* returns True exactly when it is unset (None) or at least six hours old.
C11_DueIffUnsetOrElapsed ==
    [][ (pc = "report" /\ Has(state, "last_report_time")) =>
          ((due' = "true") <=>
              \/ state.last_report_time = Null
              \/ /\ IsTimestamp(state.last_report_time)
                 /\ now - state.last_report_time >= REPORT_INTERVAL) ]_vars

\* C11 amended: for a state that has the key, should_send_report returns
\* True exactly when last_report_time is None, is not parseable, or is at
\* least six hours old; without the key it raises; it changes neither the
\* state nor the file.
C11_DueIffUnsetUnparsedOrElapsed ==
    [][ pc = "report" =>
          /\ (due' = "raises") <=> ~Has(state, "last_report_time")
          /\ (due' = "true") <=>
                /\ Has(state, "last_report_time")
                /\ \/ state.last_report_time = Null
                   \/ state.last_report_time = Malformed
                   \/ /\ IsTimestamp(state.last_report_time)
                      /\ now - state.last_report_time >= REPORT_INTERVAL
          /\ due' \in {"true", "false", "raises"}
          /\ due' # "true" => (state' = state /\ file' = file) ]_vars

\* a report was stamped, an invocation inside six hours found it not due,
\* and an invocation exactly six hours after the stamp finds it due
C11_Witness ==
    /\ pc = "exited"
    /\ due = "true"
    /\ IsTimestamp(loaded.last_report_time)
    /\ now - loaded.last_report_time = REPORT_INTERVAL

\* C12: a failed notification changes nothing but the report stamp: the
\* step after the alert is the browser close whatever the two sends came
\* to, with state and file untouched; a failed report ends the invocation
\* with status zero.  Without credentials no send succeeds, and still
\* check_dates returns only after probing every candidate, the save after
\* a find is called with reservation_found = true before the alert, and
\* the final save is called with the incremented total_runs and the
\* last_run_time; each save that writes leaves them in the file.
C12_NotificationNeverBlocks ==
    [][ /\ pc = "alert" =>
              (pc' = "close_found" /\ file' = file /\ state' = state)
        /\ (pc = "report" /\ reportResult' = "failed") =>
              /\ pc' = "exited"
              /\ exitStatus' = "zero"
              /\ variant = "rc" => (file' = file /\ state' = state)
        /\ ~credentials =>
              /\ ~alertDelivered'
              /\ reportResult' # "sent"
              /\ pc' \in {"found", "close"} =>
                     Len(probeLog') = Len(candidates')
              /\ pc' \in {"alert", "close_found"} =>
                     /\ foundSave' # "none"
                     /\ state'.reservation_found
                     /\ foundSave' = "ok" =>
                            (PersistedFound(file') /\ file' = state')
              /\ pc' = "report" =>
                     /\ saveResult' # "none"
                     /\ saveResult' = "ok" => file' = state'
                     /\ Has(loaded', "total_runs") =>
                            /\ state'.total_runs = loaded'.total_runs + 1
                            /\ state'.last_run_time = now'
      ]_vars

\* without credentials a find was saved, the alert went to nobody, and the
\* invocation is closing the browser with the flag in the file
C12_Witness ==
    /\ ~credentials
    /\ pc = "close_found"
    /\ alertAttempted
    /\ ~alertDelivered
    /\ PersistedFound(file)
    /\ file.total_runs = loaded.total_runs + 1
    /\ file.last_run_time = now

\* the class attribute has `token` among its space-separated tokens
HasClassToken(class, token) ==
    \E i \in 0..(Len(class) - Len(token)) :
        /\ SubSeq(class, i + 1, i + Len(token)) = token
        /\ (i = 0 \/ class[i] = " ")
        /\ (i + Len(token) = Len(class) \/ class[i + Len(token) + 1] = " ")

\* the four conditions of the candidate filter as the claim states them
SatisfiesFour(btn, today) ==
    /\ ~btn.raises
    /\ strip(combined(btn)) # <<>>
    /\ is_friday_or_saturday(combined(btn))
    /\ ~btn.disabled
    /\ lower(btn.aria_disabled) # Str_true
    /\ ~HasClassToken(lower(btn.class), Str_disabled)
    /\ is_within_date_range(combined(btn), today)

\* the buttons of the returned candidates, as positions in `buttons`
ReturnedButtons == [j \in DOMAIN gcb.candidates |-> gcb.candidates[j].btn]

\* C13: gather_candidate_buttons returns exactly the buttons that satisfy
\* the four conditions (non-empty text, Friday/Saturday keyword, enabled:
\* no disabled attribute, aria-disabled not "true", no disabled class
\* token; date unparseable or within the horizon), in DOM order.
C13_ExactSubsequence ==
    gcb.pc = "returned" =>
        ReturnedButtons =
            SelectSeq([i \in DOMAIN gcb.buttons |-> i],
                      LAMBDA i : SatisfiesFour(gcb.buttons[i], gcb.today))

\* C14: when the call has returned, for each of its button texts with a
\* month and a day but no year, the year
\* is_within_date_range uses is the current year when the month is not
\* before the current month and the next year when it is: "Friday 25
\* April" is of this year in March and of next year in June.
C14_YearInference ==
    gcb.pc = "returned" => \A i \in DOMAIN gcb.buttons :
        LET t == combined(gcb.buttons[i])
            m == month_num(lower(t))
        IN  (m # Null /\ day_num(t) # Null /\ YearStarts(t) = {}) =>
                /\ year_num(t, m, gcb.today) =
                       IF m >= gcb.today.month THEN gcb.today.year
                       ELSE gcb.today.year + 1
                /\ (gcb.buttons[i].text = Str_Friday25April
                        /\ gcb.today.month = 3) =>
                       year_num(t, m, gcb.today) = gcb.today.year
                /\ (gcb.buttons[i].text = Str_Friday25April
                        /\ gcb.today.month = 6) =>
                       year_num(t, m, gcb.today) = gcb.today.year + 1

\* in June the page shows "Friday 25 April" and "Saturday 20 June": the
\* first is taken as next year's and dropped, the second as this year's
\* and returned
C14_Witness ==
    /\ gcb.pc = "returned"
    /\ gcb.today.month = 6
    /\ Len(gcb.buttons) = 2
    /\ gcb.buttons[1].text = Str_Friday25April
    /\ year_num(combined(gcb.buttons[1]), 4, gcb.today) = gcb.today.year + 1
    /\ gcb.buttons[2].text = Str_Saturday20June
    /\ gcb.candidates = <<[btn |-> 2, label |-> Str_Saturday20June]>>

\* the text names no date: no month name, no day number, or a year, month
\* and day that are no calendar date
ParsesToNoDate(t, today) ==
    LET m == month_num(lower(t))
    IN  \/ m = Null
        \/ day_num(t) = Null
        \/ ~ValidDate(year_num(t, m, today), m, day_num(t))

\* the date the text names is neither before today nor past the horizon
DateInWindow(t, today) ==
    LET m == month_num(lower(t))
        d == toordinal(year_num(t, m, today), m, day_num(t))
        t0 == toordinal(today.year, today.month, today.day)
    IN  t0 <= d /\ d <= t0 + MONTHS_AHEAD * 30

\* the button passes the three other conditions of the filter
OtherwiseCandidate(btn) ==
    /\ ~btn.raises
    /\ strip(combined(btn)) # <<>>
    /\ is_friday_or_saturday(combined(btn))
    /\ is_enabled(btn)

LastProbe(log) == log[Len(log)]

\* C16: when no advance label responded after the reset, the candidate is
\* abandoned as a ProbeError: check_single_date does not click its date
\* control and it is not added to the available dates.
C16_NoAdvanceAbandons ==
    [][ (pc = "probe" /\ ~prep.next) =>
          /\ Len(probeLog') = Len(probeLog) + 1
          /\ LastProbe(probeLog').error
          /\ ~LastProbe(probeLog').clicked
          /\ available_dates' = available_dates ]_vars

\* C17: the date control of a candidate is clicked only after a fresh
\* navigation and a successful guest selection for that candidate, and no
\* candidate is taken as available without them.
C17_ProbeAfterGuestSelection ==
    [][ pc = "probe" =>
          /\ navs >= 2
          /\ LastProbe(probeLog').clicked => prep.guests
          /\ LastProbe(probeLog').returned => prep.guests ]_vars

\* the positions in the events of the call at which `kind` happened
EventsOf(kind) == {j \in DOMAIN csd.events : csd.events[j].kind = kind}

\* C18: in one check_single_date call the page is classified only after an
\* advance label responded after the date click, and a call in which none
\* responded returns False without classifying; at most one time-slot
\* button is clicked, after the date click and before the advance click,
\* and it matches the service and has no disabled attribute; a page
\* without such a button does not end the call.
C18_ProbeStepOrder ==
    /\ \A c \in EventsOf("classify") :
          \E a \in EventsOf("advance") :
              /\ a < c
              /\ \E d \in EventsOf("date") : d < a
    /\ (csd.pc = "returned" /\ ~csd.next_clicked) =>
          (EventsOf("classify") = {} /\ csd.result = "False")
    /\ Cardinality(EventsOf("slot")) <= 1
    /\ \A s \in EventsOf("slot") :
          /\ is_dinner_service(csd.time_buttons[csd.events[s].at].text)
          /\ ~csd.time_buttons[csd.events[s].at].disabled
          /\ \E d \in EventsOf("date") : d < s
          /\ \A a \in EventsOf("advance") : s < a
    /\ (csd.pc = "slots" /\ csd.i > Len(csd.time_buttons)) =>
          csd.result = "none"

\* C19: a status report goes out only when none went out in the six hours
\* before it, whatever the sends, the saves and the critical failures of
\* the invocations in between came to.
C19_ReportsSixHoursApart ==
    [][ (pc = "report" /\ reportResult' = "sent" /\ lastSent # Null) =>
            now - lastSent >= REPORT_INTERVAL ]_vars

\* process p took a step in which save_state wrote the file
RaceSaved(p) ==
    /\ race'.procs[p] # race.procs[p]
    /\ race'.procs[p].saved = "ok"

\* C20: nothing serialises two overlapping invocations: every save_state
\* that succeeds leaves the file equal to the saver's own local state,
\* whatever another invocation wrote since the saver loaded, so an
\* invocation that loaded before the other's save overwrites that save.
C20_SaveOverwritesBlindly ==
    [][ \A p \in Procs :
           RaceSaved(p) =>
               /\ race'.file = race'.procs[p].state
               /\ \A q \in Procs \ {p} : race'.procs[q] = race.procs[q] ]_vars

\* A found and saved reservation_found = true and its total_runs; B, which
\* had loaded before that save, then saved its own state: the file has lost
\* the flag and counts one run where two took place
C20_Witness ==
    /\ race.procs["A"].pc = "exited"
    /\ race.procs["A"].foundSave = "ok"
    /\ race.procs["A"].state.reservation_found
    /\ race.procs["A"].state.total_runs = 1
    /\ race.procs["B"].pc = "report"
    /\ race.procs["B"].saved = "ok"
    /\ race.procs["B"].state.total_runs = 1
    /\ race.file = race.procs["B"].state
    /\ ~PersistedFound(race.file)
    /\ race.file.total_runs = 1

\* the positions in the re-acquired list whose label equals the target
EqualLabelled == {j \in DOMAIN gcb.candidates :
                     gcb.candidates[j].label = gcb.target}

\* the positions whose label contains the target or is contained in it
ContainmentMatches ==
    {j \in DOMAIN gcb.candidates :
        \/ Contains(gcb.candidates[j].label, gcb.target)
        \/ Contains(gcb.target, gcb.candidates[j].label)}

\* C21: when the re-acquired list holds a control whose label equals the
\* target label, the control clicked is one with that label, whatever
\* controls precede it in DOM order; when no control matches by
\* containment in either direction no control is clicked.
C21_ClicksOwnControl ==
    gcb.pc = "located" =>
        /\ EqualLabelled # {} => gcb.clicked \in EqualLabelled
        /\ ContainmentMatches = {} => gcb.clicked = 0

\* C22: once the alert of a find has been attempted, a state file that
\* holds reservation_found = true goes with an alert that was delivered to
\* at least one recipient: the flag is not persisted for a find about
\* which nobody was notified.
C22_FlagOnlyWithDeliveredAlert ==
    (InInvocation /\ alertAttempted /\ PersistedFound(file)) =>
        alertDelivered

\* C23: in an invocation that loaded a complete state, once a candidate is
\* in available_dates and check_dates is over, whatever ended it, the
\* invocation has set reservation_found, called save_state and, from the
\* handler or the alert step on, attempted the alert; the candidate is
\* still listed.
C23_AvailableSurvivesLaterFailures ==
    (Complete(loaded) /\ available_dates # <<>>
        /\ pc \in {"handler", "final_save", "report", "exited"}) =>
            /\ state.reservation_found
            /\ foundSave # "none"
            /\ alertAttempted

\* the run state the file holds for the next invocation: what load_state
\* reads back from it
Persisted(f) == load_state(f)

\* C24: while invocations run on a file that holds a complete run state
\* (the zeroed default or what earlier invocations saved), no step of an
\* invocation makes the persisted total_runs smaller or turns the
\* persisted reservation_found from true to false, and the persisted
\* state keeps successful_finds <= total_runs, successful_finds <= 1 and
\* reservation_found = (successful_finds >= 1).
C24_PersistedCountersMonotone ==
    [][ (pc \notin {"idle", "exited"} /\ Complete(Persisted(file))
            /\ Persisted(file).last_report_time # Malformed) =>
            LET old == Persisted(file)
                new == Persisted(file')
            IN  /\ new.total_runs >= old.total_runs
                /\ old.reservation_found => new.reservation_found
                /\ new.successful_finds <= new.total_runs
                /\ new.successful_finds <= 1
                /\ new.reservation_found <=> new.successful_finds >= 1
      ]_vars

\* C25: an invocation that starts on a file holding reservation_found =
\* true ends in its first step with exit status 0: the file is as it was
\* (total_runs and last_run_time included), save_state was not called, no
\* availability alert and no status report was sent or attempted.
C25_ShortCircuitLeavesNoTrace ==
    [][ (pc \in {"idle", "exited"} /\ pc' # "idle" /\ PersistedFound(file)) =>
            /\ file' = file
            /\ state' = file
            /\ pc' = "exited"
            /\ exitStatus' = "zero"
            /\ saveResult' = "none"
            /\ foundSave' = "none"
            /\ ~alertAttempted'
            /\ ~alertDelivered'
            /\ due' = "none"
            /\ reportResult' = "none"
            /\ lastSent' = lastSent
      ]_vars

\* hours after a find was saved, a later invocation has
\* short-circuited and the file still holds the counters of the find
C25_Witness ==
    /\ pc = "exited"
    /\ exitStatus = "zero"
    /\ PersistedFound(loaded)
    /\ file = loaded
    /\ file.last_run_time < now
    /\ file.total_runs = 2
    /\ saveResult = "none"
    /\ ~alertAttempted
    /\ reportResult = "none"

\* C26: between two deletions of the state file the availability alert is
\* attempted in at most one invocation, and an invocation that attempted
\* it sends no status report.
C26_OneAlertNoReportWithFind ==
    /\ alertRuns <= 1
    /\ ~(InInvocation /\ alertAttempted /\ reportResult = "sent")

====
